---- MODULE Spec2Model ----
(***************************************************************************)
(* Daily-routine Telegram bot (src/main.py): the activity template, the    *)
(* daily schedule generator, the SQLite activity repository, the weekly    *)
(* aggregator and the reminder job queue.                                  *)
(*                                                                         *)
(* Strings that are compared or parsed by the code ("HH:MM" times) are     *)
(* sequences of character codes, so that the comparison is the code's      *)
(* lexicographic string comparison.  Persian display strings are replaced  *)
(* by the names of the enum members that carry them.                       *)
(***************************************************************************)
EXTENDS Integers, Sequences, FiniteSets, TLC

VARIABLES
    now,               \* the wall clock datetime.now(TEHRAN_TZ), in days
    daily_activities,  \* table daily_activities, in rowid order
    weekly_progress,   \* table weekly_progress, in rowid order
    user_settings,     \* table user_settings
    jobs,              \* the job queue of the application, in creation order
    last,              \* the last handler that ran and what its caller got
    steps              \* handler calls and clock ticks so far (bounds the run)

vars == <<now, daily_activities, weekly_progress, user_settings, jobs, last,
          steps>>

----------------------------------------------------------------------------
\* Bounds of the model.

MaxUser == 2
MaxActivityId == 2
MaxSteps == 4
MaxDay == 7

Users == 1..MaxUser

----------------------------------------------------------------------------
\* Time-of-day strings.

\* The string "%H:%M" of h hours m minutes, as character codes: a digit is
\* its value and ':' (which sorts after every digit) is 10.
Clock(h, m) == <<h \div 10, h % 10, 10, m \div 10, m % 10>>

\* Python's str < str: lexicographic on the characters.
StrLess(a, b) ==
    \/ \E i \in 1..Len(a) :
          /\ i <= Len(b)
          /\ a[i] < b[i]
          /\ \A j \in 1..(i - 1) : a[j] = b[j]
    \/ /\ Len(a) < Len(b)
       /\ \A j \in 1..Len(a) : a[j] = b[j]

\* datetime.strptime(s, "%H:%M").time(), as <<hour, minute>>.
Strptime(s) == <<s[1] * 10 + s[2], s[4] * 10 + s[5]>>

----------------------------------------------------------------------------
\* The calendar.  The clock counts days; day 0 is Monday 2024-01-29, so
\* that the first week of a run crosses a month boundary.

\* strftime('%Y-%m-%d'): the zero-padded fields <<year, month, day>>, most
\* significant first.
Date(t) ==
    IF t <= 2 THEN <<2024, 1, 29 + t>>
    ELSE IF t <= 31 THEN <<2024, 2, t - 2>>
    ELSE <<2024, 3, t - 31>>

\* The order of two '%Y-%m-%d' strings: every field has a fixed width, so
\* the strings compare as their fields do, from the left.
DateLess(a, b) ==
    \/ a[1] < b[1]
    \/ a[1] = b[1] /\ a[2] < b[2]
    \/ a[1] = b[1] /\ a[2] = b[2] /\ a[3] < b[3]

\* datetime.weekday(): Monday is 0.
Weekday(t) == t % 7

----------------------------------------------------------------------------
\* The template.

ActivityType ==
    [SCHOOL |-> "SCHOOL", TAEKWONDO |-> "TAEKWONDO", CODING |-> "CODING",
     HOME_WORKOUT |-> "HOME_WORKOUT", SKINCARE |-> "SKINCARE",
     LEISURE |-> "LEISURE", STUDY |-> "STUDY"]

TaekwondoType == {"FITNESS", "FORM", "SPARRING"}

\* SCHEDULE; the sessions of SCHEDULE["taekwondo"] in the dict's order.  The
\* third session names the member SPARING, as the source does.
SCHEDULE ==
    [school |-> [days |-> <<0, 1, 2, 3, 4>>,
                 start_time |-> Clock(7, 30),
                 end_time |-> Clock(14, 0)],
     taekwondo |->
        << [key |-> "fitness", day |-> 2, start_time |-> Clock(15, 30),
            end_time |-> Clock(17, 30), type |-> "FITNESS"],
           [key |-> "form", day |-> 4, start_time |-> Clock(9, 30),
            end_time |-> Clock(11, 30), type |-> "FORM"],
           [key |-> "sparring", day |-> 5, start_time |-> Clock(15, 45),
            end_time |-> Clock(18, 0), type |-> "SPARING"] >>,
     home_workout |-> [daily |-> TRUE]]

\* day in SCHEDULE["school"]["days"]
SchoolDay(day) ==
    \E i \in 1..Len(SCHEDULE.school.days) : SCHEDULE.school.days[i] = day

----------------------------------------------------------------------------
\* RoutinePlanner.generate_daily_schedule: the list before it is sorted.

Activity(type, name, time, description) ==
    [type |-> type, name |-> name, time |-> time, description |-> description]

\* f"taekwondo - {session['type'].value}"
TaekwondoName(session) ==
    CASE session.type = "FITNESS" -> "taekwondo - FITNESS"
      [] session.type = "FORM" -> "taekwondo - FORM"
      [] session.type = "SPARRING" -> "taekwondo - SPARRING"
      [] OTHER -> "taekwondo - AttributeError"

RECURSIVE TaekwondoActivities(_, _)
TaekwondoActivities(sessions, day_of_week) ==
    IF sessions = <<>> THEN <<>>
    ELSE (IF Head(sessions).day = day_of_week
          THEN <<Activity(ActivityType.TAEKWONDO, TaekwondoName(Head(sessions)),
                          Head(sessions).start_time, "session times")>>
          ELSE <<>>)
         \o TaekwondoActivities(Tail(sessions), day_of_week)

\* Coding after school hours on every day.
CodingTimeAfterSchool(day_of_week) == Clock(15, 0)

CodingTime(day_of_week) ==
    IF SchoolDay(day_of_week) THEN Clock(15, 0) ELSE Clock(10, 0)

WorkoutTime(day_of_week) ==
    IF day_of_week \in {2, 4, 5} THEN Clock(18, 0) ELSE Clock(16, 0)

DeclaredActivities(day_of_week) ==
    (IF SchoolDay(day_of_week)
     THEN <<Activity(ActivityType.SCHOOL, "school",
                     SCHEDULE.school.start_time, "07:30 to 14:00")>>
     ELSE <<>>)
    \o TaekwondoActivities(SCHEDULE.taekwondo, day_of_week)
    \o <<Activity(ActivityType.CODING, "coding", CodingTime(day_of_week),
                  "daily coding practice")>>
    \o (IF SCHEDULE.home_workout.daily
        THEN <<Activity(ActivityType.HOME_WORKOUT, "home workout",
                        WorkoutTime(day_of_week), "exercises")>>
        ELSE <<>>)
    \o <<Activity(ActivityType.SKINCARE, "skincare morning", Clock(7, 0),
                  "morning steps"),
         Activity(ActivityType.SKINCARE, "skincare evening", Clock(18, 30),
                  "evening steps"),
         Activity(ActivityType.SKINCARE, "skincare night", Clock(22, 0),
                  "night steps")>>
    \o <<Activity(ActivityType.LEISURE, "leisure", Clock(20, 0),
                  "rest and favourite activities")>>
    \o (IF SchoolDay(day_of_week)
        THEN <<Activity(ActivityType.STUDY, "study and homework",
                        Clock(17, 0), "review and homework")>>
        ELSE <<>>)

\* activities.sort(key=lambda x: x["time"]): list.sort is stable, so an
\* element goes after every element whose key is not greater than its own.
RECURSIVE InsertByTime(_, _)
InsertByTime(sorted, a) ==
    IF sorted = <<>> THEN <<a>>
    ELSE IF StrLess(a.time, Head(sorted).time) THEN <<a>> \o sorted
    ELSE <<Head(sorted)>> \o InsertByTime(Tail(sorted), a)

RECURSIVE StableSort(_)
StableSort(acts) ==
    IF acts = <<>> THEN <<>>
    ELSE InsertByTime(StableSort(SubSeq(acts, 1, Len(acts) - 1)),
                      acts[Len(acts)])

\* A sort that was left out: the list stays in declaration order.
NoSort(acts) == acts

SortByTime(acts) == StableSort(acts)

----------------------------------------------------------------------------
\* DatabaseManager: the activity repository.

\* The row INSERTed by log_activity at time t: completed takes its DEFAULT 0
\* and completion_time is NULL (the empty sequence; a set value is <<t>>).
NewRow(rows, user_id, a, t) ==
    [id |-> Len(rows) + 1,
     user_id |-> user_id,
     date |-> Date(t),
     activity_type |-> a.type,
     activity_name |-> a.name,
     scheduled_time |-> a.time,
     completed |-> 0,
     completion_time |-> <<>>,
     notes |-> a.description]

\* An INSERT that is skipped when the user already has a row of this name
\* and date.
LogActivityIfAbsent(rows, user_id, a, t) ==
    IF \E i \in 1..Len(rows) :
          /\ rows[i].user_id = user_id
          /\ rows[i].date = Date(t)
          /\ rows[i].activity_name = a.name
    THEN rows
    ELSE Append(rows, NewRow(rows, user_id, a, t))

LogActivity(rows, user_id, a, t) == Append(rows, NewRow(rows, user_id, a, t))

\* The loop "for activity in activities" of generate_daily_schedule: the
\* table after every activity of acts has been logged.
RECURSIVE LogAll(_, _, _, _)
LogAll(rows, acts, user_id, t) ==
    IF acts = <<>> THEN rows
    ELSE LogAll(LogActivity(rows, user_id, Head(acts), t), Tail(acts),
                user_id, t)

\* The list generate_daily_schedule returns: the sorted activities, each
\* with the id its row got.
Returned(rows, acts) ==
    [i \in 1..Len(acts) |->
        [id |-> Len(rows) + i, type |-> acts[i].type, name |-> acts[i].name,
         time |-> acts[i].time, description |-> acts[i].description]]

\* A loop that stops at the failed INSERT and hands back the activities
\* logged so far (try ... except: break around log_activity).
ReturnedSoFar(rows, acts, failed) ==
    SubSeq(Returned(rows, acts), 1, failed - 1)

\* What generate_daily_schedule hands back when log_activity raises on
\* activity number failed: the exception leaves the loop and the function,
\* the return statement is not reached.
ReturnedOnError(rows, acts, failed) == <<>>

\* An UPDATE that leaves a completed row alone (WHERE ... AND completed = 0).
MarkCompletedOnce(rows, activity_id, user_id, t) ==
    [i \in 1..Len(rows) |->
        IF /\ rows[i].id = activity_id
           /\ rows[i].user_id = user_id
           /\ rows[i].completed = 0
        THEN [rows[i] EXCEPT !.completed = 1, !.completion_time = <<t>>]
        ELSE rows[i]]

\* An UPDATE of the flag alone (SET completed = 1).
MarkCompletedFlagOnly(rows, activity_id, user_id, t) ==
    [i \in 1..Len(rows) |->
        IF rows[i].id = activity_id /\ rows[i].user_id = user_id
        THEN [rows[i] EXCEPT !.completed = 1]
        ELSE rows[i]]

\* An UPDATE by id alone (WHERE id = ?).
MarkCompletedAnyUser(rows, activity_id, user_id, t) ==
    [i \in 1..Len(rows) |->
        IF rows[i].id = activity_id
        THEN [rows[i] EXCEPT !.completed = 1, !.completion_time = <<t>>]
        ELSE rows[i]]

\* An UPDATE that flips the flag (SET completed = 1 - completed).
MarkCompletedToggle(rows, activity_id, user_id, t) ==
    [i \in 1..Len(rows) |->
        IF rows[i].id = activity_id /\ rows[i].user_id = user_id
        THEN [rows[i] EXCEPT !.completed = 1 - rows[i].completed,
                             !.completion_time = <<t>>]
        ELSE rows[i]]

\* The UPDATE of mark_activity_completed.
MarkCompleted(rows, activity_id, user_id, t) ==
    [i \in 1..Len(rows) |->
        IF rows[i].id = activity_id /\ rows[i].user_id = user_id
        THEN [rows[i] EXCEPT !.completed = 1, !.completion_time = <<t>>]
        ELSE rows[i]]

----------------------------------------------------------------------------
\* DatabaseManager.get_weekly_progress: the weekly aggregator.

\* A week that starts on the day before (today.isoweekday() for
\* today.weekday()).
StartOfWeekIso(t) == t - (Weekday(t) + 1)

\* today - timedelta(days=today.weekday()), and six days later.
StartOfWeek(t) == t - Weekday(t)
EndOfWeek(t) == StartOfWeek(t) + 6

\* WHERE user_id = ? AND date BETWEEN ? AND ?, on the date strings.
InWeek(row, user_id, start_str, end_str) ==
    /\ row.user_id = user_id
    /\ ~DateLess(row.date, start_str)
    /\ ~DateLess(end_str, row.date)

\* The rows the WHERE clause selects.
Window(rows, user_id, t) ==
    LET start_str == Date(StartOfWeek(t))
        end_str == Date(EndOfWeek(t))
    IN  {i \in 1..Len(rows) : InWeek(rows[i], user_id, start_str, end_str)}

\* SUM(completed) over the rows of a group: completed holds 0 or 1, so the
\* sum is the number of rows that hold 1.
SumCompleted(rows, group) ==
    Cardinality({i \in group : rows[i].completed = 1})

\* A count of the rows still to do only (COUNT(*) under completed = 0).
CountPending(rows, group) ==
    Cardinality({i \in group : rows[i].completed = 0})

\* COUNT(*) over the rows of a group.
CountAll(rows, group) == Cardinality(group)

\* (completed / total * 100) if total > 0 else 0, in hundredths of a percent
\* (rounded down).
PercentageFloorDiv(completed, total) ==
    IF total > 0 THEN (completed \div total) * 100 * 100 ELSE 0

Percentage(completed, total) ==
    IF total > 0 THEN (completed * 100 * 100) \div total ELSE 0

\* One entry of the dict get_weekly_progress builds.
ProgressEntry(completed, total) ==
    [completed |-> completed, total |-> total,
     percentage |-> Percentage(completed, total)]

\* An entry for every member of ActivityType, 0 of 0 where the window holds
\* no row of the type.
GetWeeklyProgressZeroFilled(rows, user_id, t) ==
    LET window == Window(rows, user_id, t)
    IN  [type \in {ActivityType[member] : member \in DOMAIN ActivityType} |->
            LET group == {i \in window : rows[i].activity_type = type}
            IN  ProgressEntry(SumCompleted(rows, group),
                              CountAll(rows, group))]

\* GROUP BY activity_type: one group, and one entry of the dict, per type
\* that has a row in the window.
GetWeeklyProgress(rows, user_id, t) ==
    LET window == Window(rows, user_id, t)
    IN  [type \in {rows[i].activity_type : i \in window} |->
            LET group == {i \in window : rows[i].activity_type = type}
            IN  ProgressEntry(SumCompleted(rows, group),
                              CountAll(rows, group))]

\* The order in which the GROUP BY yields the groups: activity_type
\* ascending, by the bytes of the Persian values.
GroupOrder ==
    <<"CODING", "LEISURE", "TAEKWONDO", "SKINCARE", "SCHOOL", "STUDY",
      "HOME_WORKOUT">>

\* RoutinePlanner.generate_weekly_report: one paragraph per entry of the
\* dict, in the dict's order, with the entry's counts and percentage.
RECURSIVE ReportLines(_, _)
ReportLines(progress, order) ==
    IF order = <<>> THEN <<>>
    ELSE IF Head(order) \in DOMAIN progress
    THEN <<[activity_type |-> Head(order),
            completed |-> progress[Head(order)].completed,
            total |-> progress[Head(order)].total,
            percentage |-> progress[Head(order)].percentage]>>
         \o ReportLines(progress, Tail(order))
    ELSE ReportLines(progress, Tail(order))

\* DatabaseManager.update_weekly_progress: one INSERT OR REPLACE per group.
\* No column of weekly_progress but the autoincremented id is unique, so
\* nothing is ever replaced.
RECURSIVE InsertProgress(_, _, _, _, _)
InsertProgress(cache, progress, order, user_id, t) ==
    IF order = <<>> THEN cache
    ELSE IF Head(order) \in DOMAIN progress
    THEN InsertProgress(
            Append(cache,
                   [id |-> Len(cache) + 1,
                    user_id |-> user_id,
                    week_start |-> Date(StartOfWeek(t)),
                    week_end |-> Date(EndOfWeek(t)),
                    activity_type |-> Head(order),
                    completed_days |-> progress[Head(order)].completed,
                    total_hours |-> progress[Head(order)].total]),
            progress, Tail(order), user_id, t)
    ELSE InsertProgress(cache, progress, Tail(order), user_id, t)

UpdateWeeklyProgress(cache, rows, user_id, t) ==
    InsertProgress(cache, GetWeeklyProgress(rows, user_id, t), GroupOrder,
                   user_id, t)

----------------------------------------------------------------------------
\* TelegramBot.schedule_reminders and the job queue.

\* The job run_daily / run_weekly adds.  No chat_id is passed, so the job's
\* chat_id is None (<<>>; a chat would be <<chat_id>>).
Job(callback, time, days, name) ==
    [callback |-> callback, time |-> time, days |-> days, name |-> name,
     chat_id |-> <<>>]

\* run_daily without days: every day of the week.
EveryDay == 0..6

\* f"school_reminder_{day}"
SchoolReminderName(day) ==
    CASE day = 0 -> "school_reminder_0"
      [] day = 1 -> "school_reminder_1"
      [] day = 2 -> "school_reminder_2"
      [] day = 3 -> "school_reminder_3"
      [] day = 4 -> "school_reminder_4"
      [] OTHER -> "school_reminder_other"

\* f"taekwondo_{session_name}_reminder"
TaekwondoReminderName(session_name) ==
    CASE session_name = "fitness" -> "taekwondo_fitness_reminder"
      [] session_name = "form" -> "taekwondo_form_reminder"
      [] session_name = "sparring" -> "taekwondo_sparring_reminder"
      [] OTHER -> "taekwondo_other_reminder"

\* The loop over SCHEDULE["school"]["days"].
RECURSIVE SchoolJobs(_)
SchoolJobs(days) ==
    IF days = <<>> THEN <<>>
    ELSE <<Job("remind_school", Strptime(Clock(6, 30)), {Head(days)},
               SchoolReminderName(Head(days)))>>
         \o SchoolJobs(Tail(days))

\* datetime.time - timedelta(minutes=...): datetime.time supports no
\* subtraction, so the expression raises TypeError whatever its operands.
TimeMinusTimedelta(time, minutes) == [raised |-> TRUE, time |-> time]

\* The loop over SCHEDULE["taekwondo"].items(): the jobs added before the
\* loop ended or raised.
RECURSIVE TaekwondoJobs(_)
TaekwondoJobs(sessions) ==
    IF sessions = <<>> THEN [raised |-> FALSE, jobs |-> <<>>]
    ELSE LET fire_time ==
                 TimeMinusTimedelta(Strptime(Head(sessions).start_time), 30)
             rest == TaekwondoJobs(Tail(sessions))
         IN  IF fire_time.raised THEN [raised |-> TRUE, jobs |-> <<>>]
             ELSE [raised |-> rest.raised,
                   jobs |-> <<Job("remind_taekwondo", fire_time.time,
                                  {Head(sessions).day},
                                  TaekwondoReminderName(Head(sessions).key))>>
                            \o rest.jobs]

\* The four jobs schedule_reminders adds after the taekwondo loop.
DailyJobs ==
    <<Job("remind_coding", Strptime(Clock(15, 0)), EveryDay, "coding_reminder"),
      Job("remind_workout", Strptime(Clock(18, 0)), EveryDay,
          "workout_reminder"),
      Job("remind_skincare_night", Strptime(Clock(21, 45)), EveryDay,
          "skincare_night_reminder"),
      Job("send_weekly_report_to_all", Strptime(Clock(20, 0)), {5},
          "weekly_report")>>

\* The job queue when schedule_reminders returns or raises: nothing is
\* cancelled, and what was added before an exception stays.
JobsAfterReminders(queue) ==
    LET taekwondo == TaekwondoJobs(SCHEDULE.taekwondo)
    IN  queue \o SchoolJobs(SCHEDULE.school.days) \o taekwondo.jobs
        \o (IF taekwondo.raised THEN <<>> ELSE DailyJobs)

\* The job queue after job i ran its callback (remind_school, ...): the
\* callback catches every exception of send_message and logs it; a job of
\* run_daily stays in the queue for its next occurrence.
JobsAfterFireCancelOnFailure(queue, i, delivered) ==
    IF delivered THEN queue
    ELSE SubSeq(queue, 1, i - 1) \o SubSeq(queue, i + 1, Len(queue))

JobsAfterFire(queue, i, delivered) == queue

----------------------------------------------------------------------------
\* What the caller of a handler got.  id is the activity id or the job
\* index the handler was given (0 when it takes none), target the chat the
\* message went to (<<>> is None).

Outcome(op, user_id, id, result, activities, target) ==
    [op |-> op, user_id |-> user_id, id |-> id, result |-> result,
     activities |-> activities, target |-> target]

----------------------------------------------------------------------------
\* The command handlers.

\* TelegramBot.show_today_schedule: generate_daily_schedule, then the reply
\* that lists the returned activities.
ShowTodaySchedule(user_id) ==
    /\ steps < MaxSteps
    /\ LET acts == SortByTime(DeclaredActivities(Weekday(now)))
       IN  /\ daily_activities' = LogAll(daily_activities, acts, user_id, now)
           /\ last' = Outcome("generate", user_id, 0, "ok",
                              Returned(daily_activities, acts), <<>>)
    /\ steps' = steps + 1
    /\ UNCHANGED <<now, weekly_progress, user_settings, jobs>>

\* TelegramBot.show_today_schedule when the INSERT of activity number failed
\* raises sqlite3.Error: every log_activity before it has committed its own
\* row, the exception passes through generate_daily_schedule and the
\* handler, and no reply is sent.
ShowTodayScheduleFails(user_id, failed) ==
    /\ steps < MaxSteps
    /\ LET acts == SortByTime(DeclaredActivities(Weekday(now)))
       IN  /\ failed \in 1..Len(acts)
           /\ daily_activities' =
                 LogAll(daily_activities, SubSeq(acts, 1, failed - 1),
                        user_id, now)
           /\ last' = Outcome("generate", user_id, failed, "sqlite3.Error",
                              ReturnedOnError(daily_activities, acts, failed),
                              <<>>)
    /\ steps' = steps + 1
    /\ UNCHANGED <<now, weekly_progress, user_settings, jobs>>

\* TelegramBot.complete_activity: mark_activity_completed (the UPDATE, then
\* update_weekly_progress on the updated table), then the reply "recorded
\* successfully", whatever the UPDATE matched.
CompleteActivity(activity_id, user_id) ==
    /\ steps < MaxSteps
    /\ daily_activities' =
          MarkCompleted(daily_activities, activity_id, user_id, now)
    /\ weekly_progress' =
          UpdateWeeklyProgress(weekly_progress, daily_activities', user_id, now)
    /\ last' = Outcome("complete", user_id, activity_id, "ok", <<>>, <<>>)
    /\ steps' = steps + 1
    /\ UNCHANGED <<now, user_settings, jobs>>

\* TelegramBot.weekly_report: generate_weekly_report reads
\* get_weekly_progress and the reply lists its entries.
WeeklyReport(user_id) ==
    /\ steps < MaxSteps
    /\ last' = Outcome("report", user_id, 0, "ok",
                       ReportLines(
                           GetWeeklyProgress(daily_activities, user_id, now),
                           GroupOrder),
                       <<>>)
    /\ steps' = steps + 1
    /\ UNCHANGED <<now, daily_activities, weekly_progress, user_settings,
                   jobs>>

\* The clock moves on.
Tick ==
    /\ steps < MaxSteps
    /\ now' = now + 1
    /\ steps' = steps + 1
    /\ last' = Outcome("tick", 0, 0, "ok", <<>>, <<>>)
    /\ UNCHANGED <<daily_activities, weekly_progress, user_settings, jobs>>

----------------------------------------------------------------------------
\* The reminder scheduler.

\* TelegramBot.schedule_reminders, a synchronous method: one step of the
\* event loop, which no job callback interleaves.
ScheduleReminders ==
    /\ steps < MaxSteps
    /\ jobs' = JobsAfterReminders(jobs)
    /\ last' = Outcome("reconcile", 0, 0,
                       IF TaekwondoJobs(SCHEDULE.taekwondo).raised
                       THEN "TypeError" ELSE "ok",
                       <<>>, <<>>)
    /\ steps' = steps + 1
    /\ UNCHANGED <<now, daily_activities, weekly_progress, user_settings>>

\* TelegramBot.start: the welcome message to the user who sent /start, and
\* nothing else: no row of user_settings is written, no job is scheduled.
Start(user_id) ==
    /\ steps < MaxSteps
    /\ last' = Outcome("start", user_id, 0, "ok", <<>>, <<user_id>>)
    /\ steps' = steps + 1
    /\ UNCHANGED <<now, daily_activities, weekly_progress, user_settings,
                   jobs>>

\* Job i of the queue fires on one of its days: its callback sends the
\* message to context.job.chat_id; the gateway delivers it or raises, and
\* the callback logs what was raised.
Fire(i, delivered) ==
    /\ steps < MaxSteps
    /\ i \in 1..Len(jobs)
    /\ Weekday(now) \in jobs[i].days
    /\ jobs' = JobsAfterFire(jobs, i, delivered)
    /\ last' = Outcome("fire", 0, i, IF delivered THEN "sent" ELSE "logged",
                       <<>>, jobs[i].chat_id)
    /\ steps' = steps + 1
    /\ UNCHANGED <<now, daily_activities, weekly_progress, user_settings>>

----------------------------------------------------------------------------
\* The process starts on any day of the week with an empty database.

\* A table user_settings without rows.
NoSettings == [user_id \in {} |-> [notifications_enabled |-> TRUE]]

Init ==
    /\ now \in 0..6
    /\ daily_activities = <<>>
    /\ weekly_progress = <<>>
    /\ user_settings = NoSettings
    /\ jobs = <<>>
    /\ last = Outcome("none", 0, 0, "ok", <<>>, <<>>)
    /\ steps = 0

Next ==
    \/ \E user_id \in Users : ShowTodaySchedule(user_id)
    \/ \E activity_id \in 1..MaxActivityId, user_id \in Users :
          CompleteActivity(activity_id, user_id)
    \/ Tick

Spec == Init /\ [][Next]_vars

\* The reminder scheduler alone.  No handler of the program writes
\* user_settings: its rows are those database.db holds when the process
\* starts (CREATE TABLE IF NOT EXISTS keeps them).
InitSched ==
    /\ now \in 0..6
    /\ daily_activities = <<>>
    /\ weekly_progress = <<>>
    /\ \E registered \in SUBSET Users :
          user_settings \in
             [registered -> [notifications_enabled : BOOLEAN]]
    /\ jobs = <<>>
    /\ last = Outcome("none", 0, 0, "ok", <<>>, <<>>)
    /\ steps = 0

NextSched ==
    \/ \E user_id \in Users : Start(user_id)
    \/ ScheduleReminders
    \/ \E i \in 1..Len(jobs), delivered \in BOOLEAN : Fire(i, delivered)
    \/ Tick

SpecSched == InitSched /\ [][NextSched]_vars

\* The schedule handler with a database whose writes can fail; a run is
\* followed up to its first failed write.
NextFault ==
    /\ last.result = "ok"
    /\ \/ \E user_id \in Users : ShowTodaySchedule(user_id)
       \/ \E user_id \in Users,
             failed \in 1..Len(DeclaredActivities(Weekday(now))) :
                ShowTodayScheduleFails(user_id, failed)

SpecFault == Init /\ [][NextFault]_vars

\* A start on database.db as earlier runs left it (CREATE TABLE IF NOT
\* EXISTS keeps the rows): two schedules shown on days up to today.
InitWeek ==
    /\ now \in 0..MaxDay
    /\ \E first \in 0..now, second \in 0..now, a \in Users, b \in Users :
          /\ first <= second
          /\ daily_activities =
                LogAll(LogAll(<<>>,
                              SortByTime(DeclaredActivities(Weekday(first))),
                              a, first),
                       SortByTime(DeclaredActivities(Weekday(second))),
                       b, second)
    /\ weekly_progress = <<>>
    /\ user_settings = NoSettings
    /\ jobs = <<>>
    /\ last = Outcome("none", 0, 0, "ok", <<>>, <<>>)
    /\ steps = 0

NextWeek ==
    \/ \E user_id \in Users : WeeklyReport(user_id)
    \/ Tick

SpecWeek == InitWeek /\ [][NextWeek]_vars

----------------------------------------------------------------------------
\* Steps of the handlers, as seen in a pair of states.

GenerateStep == steps' = steps + 1 /\ last'.op = "generate"
CompleteStep == steps' = steps + 1 /\ last'.op = "complete"
ReconcileStep == steps' = steps + 1 /\ last'.op = "reconcile"
FireStep == steps' = steps + 1 /\ last'.op = "fire"

\* The rows of the table with this id that belong to this user.
Owned(rows, activity_id, user_id) ==
    {i \in 1..Len(rows) :
        rows[i].id = activity_id /\ rows[i].user_id = user_id}

----------------------------------------------------------------------------
\* C1: the list generate_daily_schedule returns is sorted non-decreasing by
\* time, and two activities with the same time are in the order in which
\* the function declares them.

DeclaredAt(name) ==
    CHOOSE k \in 1..Len(DeclaredActivities(Weekday(now))) :
        DeclaredActivities(Weekday(now))[k].name = name

C1_GenerateSorted ==
    last.op = "generate" =>
        /\ Len(last.activities) = Len(DeclaredActivities(Weekday(now)))
        /\ \A i, j \in 1..Len(last.activities) :
              i < j =>
                 /\ ~StrLess(last.activities[j].time, last.activities[i].time)
                 /\ last.activities[i].time = last.activities[j].time
                       => DeclaredAt(last.activities[i].name)
                            < DeclaredAt(last.activities[j].name)

\* A Friday (weekday 4) list: the sort moved the morning skincare, declared
\* fifth, to the front and the 09:30 session, declared second, to third.
C1_Witness ==
    /\ last.op = "generate"
    /\ Weekday(now) = 4
    /\ Len(last.activities) = 9
    /\ last.activities[1].name = "skincare morning"
    /\ last.activities[2].name = "school"
    /\ last.activities[3].name = "taekwondo - FORM"

----------------------------------------------------------------------------
\* C2 as stated: a second complete_activity on an instance its owner has
\* already completed leaves the activity table exactly as it was; in
\* particular completion_time keeps the value of the first call.
C2_SecondCompleteChangesNothing ==
    [][(/\ CompleteStep
        /\ \E i \in Owned(daily_activities, last'.id, last'.user_id) :
              daily_activities[i].completed = 1)
       => daily_activities' = daily_activities]_vars

\* C2, amended: a second complete_activity on an instance its owner has
\* already completed is not an error, adds and removes no instance and
\* leaves completed = 1 and every other field of every instance as it was,
\* except that the completion_time of the instance becomes the time of this
\* call.
C2_SecondCompleteLastWins ==
    [][(/\ CompleteStep
        /\ \E i \in Owned(daily_activities, last'.id, last'.user_id) :
              daily_activities[i].completed = 1)
       => /\ last'.result = "ok"
          /\ Len(daily_activities') = Len(daily_activities)
          /\ \A i \in 1..Len(daily_activities) :
                daily_activities'[i] =
                   IF i \in Owned(daily_activities, last'.id, last'.user_id)
                   THEN [daily_activities[i] EXCEPT
                            !.completion_time = <<now>>]
                   ELSE daily_activities[i]]_vars

\* The one completed instance was completed a second time, on a later day
\* than the first: two snapshots of the week count it, and its
\* completion_time is that of the second call.
C2_Witness ==
    /\ last.op = "complete"
    /\ Cardinality({k \in 1..Len(daily_activities) :
                       daily_activities[k].completed = 1}) = 1
    /\ \E i \in Owned(daily_activities, last.id, last.user_id) :
          /\ daily_activities[i].completed = 1
          /\ daily_activities[i].completion_time = <<now>>
          /\ DateLess(daily_activities[i].date, Date(now))
          /\ \E a, b \in 1..Len(weekly_progress) :
                /\ a < b
                /\ weekly_progress[a].user_id = last.user_id
                /\ weekly_progress[b].user_id = last.user_id
                /\ weekly_progress[a].activity_type
                      = daily_activities[i].activity_type
                /\ weekly_progress[b].activity_type
                      = daily_activities[i].activity_type
                /\ weekly_progress[a].completed_days = 1
                /\ weekly_progress[b].completed_days = 1

----------------------------------------------------------------------------
\* C3: complete_activity with an id of which the user owns no instance
\* gives the caller NotFound and changes neither table.
C3_ForeignCompleteNotFound ==
    [][(/\ CompleteStep
        /\ Owned(daily_activities, last'.id, last'.user_id) = {})
       => /\ last'.result = "NotFound"
          /\ daily_activities' = daily_activities
          /\ weekly_progress' = weekly_progress]_vars

----------------------------------------------------------------------------
\* Job sets.

\* How many jobs of the queue have this name.
CountJobs(queue, name) ==
    Cardinality({i \in 1..Len(queue) : queue[i].name = name})

\* The names schedule_reminders gives its jobs.
ReminderNames ==
    {SchoolReminderName(SCHEDULE.school.days[i]) :
        i \in 1..Len(SCHEDULE.school.days)}
    \cup {TaekwondoReminderName(SCHEDULE.taekwondo[i].key) :
             i \in 1..Len(SCHEDULE.taekwondo)}
    \cup {DailyJobs[i].name : i \in 1..Len(DailyJobs)}

\* The callbacks: one per reminder category.
ReminderCallbacks ==
    {"remind_school", "remind_taekwondo"}
    \cup {DailyJobs[i].callback : i \in 1..Len(DailyJobs)}

\* C4: a pass of schedule_reminders right after another leaves the job set
\* as it was: every job name is scheduled as often as before.
C4_SecondPassSameJobs ==
    [][(ReconcileStep /\ last.op = "reconcile")
       => \A name \in ReminderNames :
             CountJobs(jobs', name) = CountJobs(jobs, name)]_vars

\* C5: after a pass with no user registered, no job is scheduled.
C5_NoUsersNoJobs ==
    (last.op = "reconcile" /\ DOMAIN user_settings = {}) => jobs = <<>>

\* C6: a job fires only on a job set made of whole passes: every name
\* schedule_reminders declares is scheduled equally often.
C6_FiresOnWholeJobSet ==
    last.op = "fire" =>
        \A m, n \in ReminderNames : CountJobs(jobs, m) = CountJobs(jobs, n)

\* C7: right after a pass, every registered user with notifications enabled
\* has a job of every reminder category, and a registered user with
\* notifications disabled has no job.
C7_JobsForEnabledUsersOnly ==
    last.op = "reconcile" =>
        \A user_id \in DOMAIN user_settings :
            IF user_settings[user_id].notifications_enabled
            THEN \A callback \in ReminderCallbacks :
                    \E i \in 1..Len(jobs) :
                        /\ jobs[i].callback = callback
                        /\ jobs[i].chat_id = <<user_id>>
            ELSE \A i \in 1..Len(jobs) : jobs[i].chat_id # <<user_id>>

\* C8: a firing, delivered or not, raises nothing and leaves the job queue
\* as it was, and no step but a pass of schedule_reminders changes a job
\* that is scheduled.
C8_FiringKeepsJobs ==
    [][/\ FireStep =>
            /\ jobs' = jobs
            /\ last'.result \in {"sent", "logged"}
       /\ ~ReconcileStep =>
            /\ Len(jobs') >= Len(jobs)
            /\ \A i \in 1..Len(jobs) : jobs'[i] = jobs[i]]_vars

\* A school reminder fired, its dispatch failed and was logged, and the job
\* is still scheduled for its days.
C8_Witness ==
    /\ last.op = "fire"
    /\ last.result = "logged"
    /\ last.id \in 1..Len(jobs)
    /\ jobs[last.id].callback = "remind_school"
    /\ Weekday(now) \in jobs[last.id].days

\* start_time minus 30 minutes, as <<hour, minute>>.
HalfHourBefore(start_time) ==
    LET minutes == Strptime(start_time)[1] * 60 + Strptime(start_time)[2] - 30
    IN  <<minutes \div 60, minutes % 60>>

\* C9: after a pass, every taekwondo session has a reminder job at
\* start_time minus 30 minutes on the session's day only (09:00 on day 4
\* for the 09:30 session).
C9_TaekwondoReminderHalfHourBefore ==
    last.op = "reconcile" =>
        \A s \in 1..Len(SCHEDULE.taekwondo) :
            \E i \in 1..Len(jobs) :
                /\ jobs[i].name
                      = TaekwondoReminderName(SCHEDULE.taekwondo[s].key)
                /\ jobs[i].time
                      = HalfHourBefore(SCHEDULE.taekwondo[s].start_time)
                /\ jobs[i].days = {SCHEDULE.taekwondo[s].day}

----------------------------------------------------------------------------
\* C10: every entry of get_weekly_progress has percentage =
\* completed / total * 100 (here in hundredths, rounded down) when
\* total > 0 and 0 otherwise: all completed is 100, none completed is 0.
C10_PercentageOfCounts ==
    \A user_id \in Users :
        LET progress == GetWeeklyProgress(daily_activities, user_id, now)
        IN  \A type \in DOMAIN progress :
                LET entry == progress[type]
                IN  IF entry.total > 0
                    THEN /\ entry.percentage * entry.total
                               <= entry.completed * 100 * 100
                         /\ entry.completed * 100 * 100
                               < (entry.percentage + 1) * entry.total
                         /\ entry.completed = entry.total
                               => entry.percentage = 100 * 100
                         /\ entry.completed = 0 => entry.percentage = 0
                    ELSE entry.percentage = 0

\* One user's week with a category all completed (school, 1 of 1), one
\* partly completed (skincare, 1 of 3) and one not at all (coding, 0 of 1).
C10_Witness ==
    \E user_id \in Users :
        LET progress == GetWeeklyProgress(daily_activities, user_id, now)
        IN  /\ {"SCHOOL", "SKINCARE", "CODING"} \subseteq DOMAIN progress
            /\ progress["SCHOOL"].completed = 1
            /\ progress["SCHOOL"].total = 1
            /\ progress["SCHOOL"].percentage = 100 * 100
            /\ progress["SKINCARE"].completed = 1
            /\ progress["SKINCARE"].total = 3
            /\ progress["SKINCARE"].percentage = 3333
            /\ progress["CODING"].completed = 0
            /\ progress["CODING"].percentage = 0

----------------------------------------------------------------------------
\* C11: in every state the handlers reach, every entry of
\* get_weekly_progress has 0 <= completed <= total and a percentage
\* between 0 and 100 (here 0 and 100 * 100 hundredths).
C11_CountsAndPercentageInRange ==
    \A user_id \in Users :
        LET progress == GetWeeklyProgress(daily_activities, user_id, now)
        IN  \A type \in DOMAIN progress :
                /\ 0 <= progress[type].completed
                /\ progress[type].completed <= progress[type].total
                /\ 0 <= progress[type].percentage
                /\ progress[type].percentage <= 100 * 100

\* Two schedules of one day and a completion: skincare stands at 1 of 6,
\* strictly inside the range, and school at 1 of 2.
C11_Witness ==
    \E user_id \in Users :
        LET progress == GetWeeklyProgress(daily_activities, user_id, now)
        IN  /\ {"SCHOOL", "SKINCARE"} \subseteq DOMAIN progress
            /\ progress["SKINCARE"].completed = 1
            /\ progress["SKINCARE"].total = 6
            /\ progress["SKINCARE"].percentage = 1666
            /\ progress["SCHOOL"].completed = 1
            /\ progress["SCHOOL"].total = 2
            /\ progress["SCHOOL"].percentage = 50 * 100

----------------------------------------------------------------------------
\* C12: the dict of get_weekly_progress has an entry for a type exactly
\* when the user has a row of that type dated in the week of now; no entry
\* is 0 of 0.
C12_EntryIffRowInWeek ==
    \A user_id \in Users :
        LET progress == GetWeeklyProgress(daily_activities, user_id, now)
        IN  /\ \A member \in DOMAIN ActivityType :
                   ActivityType[member] \in DOMAIN progress
                       <=> \E i \in 1..Len(daily_activities) :
                               /\ daily_activities[i].user_id = user_id
                               /\ daily_activities[i].activity_type
                                     = ActivityType[member]
                               /\ \E day \in StartOfWeek(now)..EndOfWeek(now) :
                                      daily_activities[i].date = Date(day)
            /\ \A type \in DOMAIN progress : progress[type].total >= 1

\* A user whose rows are all of last week: rows of every type of that day,
\* and an empty dict.
C12_Witness ==
    \E user_id \in Users :
        /\ \E i \in 1..Len(daily_activities) :
               /\ daily_activities[i].user_id = user_id
               /\ daily_activities[i].activity_type = "SKINCARE"
        /\ DOMAIN GetWeeklyProgress(daily_activities, user_id, now) = {}

----------------------------------------------------------------------------
\* C13: a weekly report counts exactly the user's rows dated from the
\* Monday of the week of today to the Sunday after it, both included, and
\* no row of the Sunday before or of the Monday after; today lies inside
\* that week.

\* The seven days of the week of day t, Monday first, as date strings.
WeekDates(t) == {Date(7 * (t \div 7) + k) : k \in 0..6}

\* The user's rows of a type dated on one of these dates.
RowsDated(rows, user_id, type, dates) ==
    {i \in 1..Len(rows) :
        /\ rows[i].user_id = user_id
        /\ rows[i].activity_type = type
        /\ rows[i].date \in dates}

C13_WeekIsMondayToSunday ==
    /\ Weekday(StartOfWeek(now)) = 0
    /\ Weekday(EndOfWeek(now)) = 6
    /\ Date(now) \in WeekDates(now)
    /\ ~DateLess(Date(now), Date(StartOfWeek(now)))
    /\ ~DateLess(Date(EndOfWeek(now)), Date(now))
    /\ last.op = "report" =>
          /\ \A k \in 1..Len(last.activities) :
                last.activities[k].total =
                    Cardinality(RowsDated(daily_activities, last.user_id,
                                          last.activities[k].activity_type,
                                          WeekDates(now)))
          /\ \A member \in DOMAIN ActivityType :
                RowsDated(daily_activities, last.user_id,
                          ActivityType[member], WeekDates(now)) # {}
                    => \E k \in 1..Len(last.activities) :
                           last.activities[k].activity_type
                               = ActivityType[member]

\* A report on a Monday for a user with a schedule of the day before (a
\* Sunday) and one of this Monday: coding is counted once, skincare three
\* times.
C13_Witness ==
    /\ last.op = "report"
    /\ Weekday(now) = 0
    /\ RowsDated(daily_activities, last.user_id, "CODING", {Date(now - 1)})
          # {}
    /\ RowsDated(daily_activities, last.user_id, "CODING", {Date(now)}) # {}
    /\ \E k \in 1..Len(last.activities) :
          /\ last.activities[k].activity_type = "CODING"
          /\ last.activities[k].total = 1
    /\ \E k \in 1..Len(last.activities) :
          /\ last.activities[k].activity_type = "SKINCARE"
          /\ last.activities[k].total = 3

----------------------------------------------------------------------------
----------------------------------------------------------------------------
\* C15: when a write of generate_daily_schedule fails, whichever row it is,
\* the caller gets the failure and no list, not even of the rows that were
\* written before it.
C15_FailedGenerateReturnsNoList ==
    (last.op = "generate" /\ last.result # "ok") => last.activities = <<>>

\* The fourth write of a schedule failed: three rows of it are stored, and
\* the caller has no list.
C15_Witness ==
    /\ last.op = "generate"
    /\ last.result = "sqlite3.Error"
    /\ last.id = 4
    /\ Len(daily_activities) >= 3
    /\ \A k \in 0..2 :
          /\ daily_activities[Len(daily_activities) - k].user_id = last.user_id
          /\ daily_activities[Len(daily_activities) - k].date = Date(now)
    /\ last.activities = <<>>

----------------------------------------------------------------------------
\* C16: generate_daily_schedule checks for nothing: every call adds one row
\* per activity of the day for the user and the date, each with an id no
\* other row has, so that n calls leave n rows per activity and the week's
\* totals grow with every call.

\* The user's rows of a date with this activity name.
RowsNamed(rows, user_id, date, name) ==
    {i \in 1..Len(rows) :
        /\ rows[i].user_id = user_id
        /\ rows[i].date = date
        /\ rows[i].activity_name = name}

C16_EveryGenerateAddsRows ==
    [][GenerateStep =>
          LET user_id == last'.user_id
              acts == DeclaredActivities(Weekday(now))
              before == GetWeeklyProgress(daily_activities, user_id, now)
              after == GetWeeklyProgress(daily_activities', user_id, now)
          IN  /\ \A k \in 1..Len(acts) :
                    Cardinality(RowsNamed(daily_activities', user_id,
                                          Date(now), acts[k].name))
                        = Cardinality(RowsNamed(daily_activities, user_id,
                                                Date(now), acts[k].name)) + 1
              /\ \A i \in 1..Len(daily_activities') :
                    \A j \in 1..Len(daily_activities') :
                        daily_activities'[i].id = daily_activities'[j].id
                            => i = j
              /\ \A k \in 1..Len(acts) :
                    /\ acts[k].type \in DOMAIN after
                    /\ after[acts[k].type].total
                          = (IF acts[k].type \in DOMAIN before
                             THEN before[acts[k].type].total ELSE 0)
                            + Cardinality({m \in 1..Len(acts) :
                                              acts[m].type = acts[k].type})
    ]_vars

\* Three schedules of one user on one day: three coding rows with three
\* ids, and a week's total of three for coding.
C16_Witness ==
    /\ last.op = "generate"
    /\ \E i \in 1..Len(daily_activities) :
          \E j \in 1..Len(daily_activities) :
              \E k \in 1..Len(daily_activities) :
                  /\ i < j /\ j < k
                  /\ daily_activities[i].id # daily_activities[j].id
                  /\ daily_activities[j].id # daily_activities[k].id
                  /\ daily_activities[i].id # daily_activities[k].id
                  /\ \A m \in {i, j, k} :
                        /\ daily_activities[m].user_id = last.user_id
                        /\ daily_activities[m].date = Date(now)
                        /\ daily_activities[m].activity_name = "coding"
    /\ GetWeeklyProgress(daily_activities, last.user_id, now)["CODING"].total
          = 3

----------------------------------------------------------------------------
\* C17: no step deletes a row of daily_activities, no step changes a field
\* of a row other than completed and completion_time, and completed never
\* goes back from 1 to 0.
C17_RowsKeptCompletedMonotonic ==
    [][/\ Len(daily_activities') >= Len(daily_activities)
       /\ \A i \in 1..Len(daily_activities) :
             /\ [daily_activities'[i] EXCEPT !.completed = 0,
                                             !.completion_time = <<>>]
                   = [daily_activities[i] EXCEPT !.completed = 0,
                                                 !.completion_time = <<>>]
             /\ daily_activities'[i].completed \in {0, 1}
             /\ daily_activities[i].completed = 1
                   => daily_activities'[i].completed = 1
    ]_vars

\* A schedule shown after a completion: the completed row is still there,
\* still completed, below the new rows.
C17_Witness ==
    /\ last.op = "generate"
    /\ \E i \in 1..(Len(daily_activities) - Len(last.activities)) :
          /\ daily_activities[i].user_id = last.user_id
          /\ daily_activities[i].completed = 1
          /\ daily_activities[i].completion_time # <<>>

----------------------------------------------------------------------------
\* C18: a generate or complete call of one user leaves every other user's
\* rows (which rows there are, their completed flags, their completion
\* times and every other field), weekly progress and stored progress rows
\* as they were; so does any interleaving of such calls.

\* The rows of a table that belong to a user, in the table's order.
UserRows(rows, user_id) == SelectSeq(rows, LAMBDA row : row.user_id = user_id)

C18_OtherUsersUntouched ==
    [][(GenerateStep \/ CompleteStep) =>
          \A other \in Users \ {last'.user_id} :
              /\ UserRows(daily_activities', other)
                    = UserRows(daily_activities, other)
              /\ GetWeeklyProgress(daily_activities', other, now')
                    = GetWeeklyProgress(daily_activities, other, now)
              /\ UserRows(weekly_progress', other)
                    = UserRows(weekly_progress, other)
    ]_vars

\* A user with rows of their own completes the id of another user's row,
\* which stays not completed.
C18_Witness ==
    /\ last.op = "complete"
    /\ UserRows(daily_activities, last.user_id) # <<>>
    /\ \E i \in 1..Len(daily_activities) :
          /\ daily_activities[i].id = last.id
          /\ daily_activities[i].user_id # last.user_id
          /\ daily_activities[i].completed = 0
          /\ daily_activities[i].completion_time = <<>>

----------------------------------------------------------------------------
\* C19: in every state the job queue holds at most one job of a name for a
\* chat, and every job carries the chat of a registered user, the one it
\* is to notify.
C19_OneJobPerKeyWithUser ==
    /\ \A i \in 1..Len(jobs) :
          \A j \in 1..Len(jobs) :
              (jobs[i].name = jobs[j].name /\ jobs[i].chat_id = jobs[j].chat_id)
                  => i = j
    /\ \A i \in 1..Len(jobs) :
          \E user_id \in DOMAIN user_settings : jobs[i].chat_id = <<user_id>>

----------------------------------------------------------------------------
\* C20: when /start of a registered user with notifications enabled has
\* been handled, the queue holds a job of every reminder category for that
\* user.
C20_StartReconciles ==
    (/\ last.op = "start"
     /\ last.user_id \in DOMAIN user_settings
     /\ user_settings[last.user_id].notifications_enabled)
        => \A callback \in ReminderCallbacks :
               \E i \in 1..Len(jobs) :
                   /\ jobs[i].callback = callback
                   /\ jobs[i].chat_id = <<last.user_id>>

----------------------------------------------------------------------------
\* C21: with users registered, when a scheduled job fires on one of its
\* days, its one message goes to the chat of the job's own user, one of the
\* registered users.
C21_FireDispatchesToJobsUser ==
    (last.op = "fire" /\ DOMAIN user_settings # {}) =>
        /\ last.id \in 1..Len(jobs)
        /\ Weekday(now) \in jobs[last.id].days
        /\ last.target = jobs[last.id].chat_id
        /\ \E user_id \in DOMAIN user_settings : last.target = <<user_id>>

----------------------------------------------------------------------------
\* The weekday of a stored date string, and the stored home workouts.
WeekdayOfDate(date) ==
    Weekday(CHOOSE day \in 0..now : Date(day) = date)

WorkoutRows ==
    {i \in 1..Len(daily_activities) :
        daily_activities[i].activity_type = "HOME_WORKOUT"}

\* C22: the home workout has one scheduled_time on every school day
\* (weekdays 0..4) and the other on every other day: two stored workout
\* rows have the same time exactly when their days are both school days or
\* both not.
C22_WorkoutTimeBySchoolDay ==
    \A i \in WorkoutRows :
        \A j \in WorkoutRows :
            (daily_activities[i].scheduled_time
                 = daily_activities[j].scheduled_time)
            <=> ((WeekdayOfDate(daily_activities[i].date) \in 0..4)
                 <=> (WeekdayOfDate(daily_activities[j].date) \in 0..4))

----------------------------------------------------------------------------
\* C23: complete calls on one instance by its owner take effect one after
\* the other, in whatever order they come: each returns without error and
\* leaves the instance completed with the completion_time of that call, the
\* last one applied.
C23_CompletesSerialized ==
    last.op = "complete" =>
        /\ last.result = "ok"
        /\ \A i \in Owned(daily_activities, last.id, last.user_id) :
              /\ daily_activities[i].completed = 1
              /\ daily_activities[i].completion_time = <<now>>

\* Today's instance was completed twice by its owner and nothing else was:
\* both calls stored the week's progress with it counted, and it is
\* completed with the time of the call applied last.
C23_Witness ==
    /\ last.op = "complete"
    /\ last.result = "ok"
    /\ Cardinality({k \in 1..Len(daily_activities) :
                       daily_activities[k].completed = 1}) = 1
    /\ \E i \in Owned(daily_activities, last.id, last.user_id) :
          /\ daily_activities[i].date = Date(now)
          /\ daily_activities[i].completed = 1
          /\ daily_activities[i].completion_time = <<now>>
          /\ Cardinality({c \in 1..Len(weekly_progress) :
                /\ weekly_progress[c].user_id = last.user_id
                /\ weekly_progress[c].activity_type
                      = daily_activities[i].activity_type
                /\ weekly_progress[c].completed_days = 1}) = 2

----------------------------------------------------------------------------
\* C24: table weekly_progress holds at most one row per (user_id,
\* week_start, activity_type), and the completed_days of a row of the
\* current week is the completed count get_weekly_progress computes from
\* daily_activities.
C24_CacheOneRowPerKeyUpToDate ==
    /\ \A a \in 1..Len(weekly_progress) :
          \A b \in 1..Len(weekly_progress) :
              (/\ weekly_progress[a].user_id = weekly_progress[b].user_id
               /\ weekly_progress[a].week_start = weekly_progress[b].week_start
               /\ weekly_progress[a].activity_type
                     = weekly_progress[b].activity_type)
                  => a = b
    /\ \A a \in 1..Len(weekly_progress) :
          weekly_progress[a].week_start = Date(StartOfWeek(now)) =>
              LET progress == GetWeeklyProgress(daily_activities,
                                                weekly_progress[a].user_id,
                                                now)
              IN  /\ weekly_progress[a].activity_type \in DOMAIN progress
                  /\ weekly_progress[a].completed_days
                        = progress[weekly_progress[a].activity_type].completed

----------------------------------------------------------------------------
\* C25: in every state, a row of daily_activities has a completion_time
\* exactly when its completed is 1: a new row has completed 0 and no
\* completion_time, and a completion sets both.
C25_CompletionTimeIffCompleted ==
    \A i \in 1..Len(daily_activities) :
        /\ daily_activities[i].completed \in {0, 1}
        /\ daily_activities[i].completed = 1
              <=> daily_activities[i].completion_time # <<>>

\* After a completion: the completed row has its time, and another row of
\* the same schedule has neither.
C25_Witness ==
    /\ last.op = "complete"
    /\ \E i \in Owned(daily_activities, last.id, last.user_id) :
          /\ daily_activities[i].completed = 1
          /\ daily_activities[i].completion_time = <<now>>
          /\ \E j \in 1..Len(daily_activities) :
                /\ daily_activities[j].user_id = last.user_id
                /\ daily_activities[j].date = daily_activities[i].date
                /\ daily_activities[j].completed = 0
                /\ daily_activities[j].completion_time = <<>>

----------------------------------------------------------------------------
\* C26: every session of SCHEDULE["taekwondo"] names a member that
\* TaekwondoType defines, so that the module loads and every taekwondo
\* activity of a generated schedule is named after its session's variant.
C26_SessionVariantsDefined ==
    /\ \A s \in 1..Len(SCHEDULE.taekwondo) :
          SCHEDULE.taekwondo[s].type \in TaekwondoType
    /\ last.op = "generate" =>
          \A k \in 1..Len(last.activities) :
              last.activities[k].type = "TAEKWONDO" =>
                  last.activities[k].name
                      \in {"taekwondo - FITNESS", "taekwondo - FORM",
                           "taekwondo - SPARRING"}

====
